---- MODULE Spec2Model ----
(***************************************************************************)
(* A model of chardet's UniversalDetector (universaldetector.py) together  *)
(* with the probers it constructs.  Confidences are integers in           *)
(* hundredths (1.0 is 100, 0.9 is 90, 0.2 is 20).  Python's None is the    *)
(* string "None" for names and NoChar for _last_char.                     *)
(***************************************************************************)
EXTENDS Integers, Sequences, FiniteSets, TLC

(* Bound: the number of bytes feed consumes between two resets. *)
MaxStream == 5

(* The byte values the model feeds: NUL, 'A', a Windows-range byte, the    *)
(* three bytes of the UTF-8 BOM (0xBB and 0xBF are high bytes <= 0xC0) and *)
(* the two bytes of the UTF-16 BOMs.                                       *)
Bytes == {0, 65, 146, 187, 191, 239, 254, 255}

ChunksUpTo(n) == UNION {[1..k -> Bytes] : k \in 0..n}

NoChar == -1
None == "None"
NoProber == [kind |-> "None"]

PURE_ASCII == "PURE_ASCII"
ESC_ASCII == "ESC_ASCII"
HIGH_BYTE == "HIGH_BYTE"

DETECTING == "DETECTING"
FOUND_IT == "FOUND_IT"
NOT_ME == "NOT_ME"

MINIMUM_THRESHOLD == 20

BOM_UTF8 == <<239, 187, 191>>
BOM_UTF32_LE == <<255, 254, 0, 0>>
BOM_UTF32_BE == <<0, 0, 254, 255>>
BOM_UTF16_LE == <<255, 254>>
BOM_UTF16_BE == <<254, 255>>

Verdict(e, c, l) == [encoding |-> e, confidence |-> c, language |-> l]

NullVerdict == Verdict(None, 0, None)

(* bytes.startswith *)
StartsWith(s, p) == Len(s) >= Len(p) /\ SubSeq(s, 1, Len(p)) = p

(* The signatures feed tests for and the label it gives to each. *)
BOMTable ==
  {[bytes |-> BOM_UTF8, name |-> "UTF-8-SIG"],
   [bytes |-> BOM_UTF32_LE, name |-> "UTF-32LE"],
   [bytes |-> BOM_UTF32_BE, name |-> "UTF-32BE"],
   [bytes |-> BOM_UTF16_LE, name |-> "UTF-16LE"],
   [bytes |-> BOM_UTF16_BE, name |-> "UTF-16BE"]}

(* The signatures of the table that the byte string s begins with. *)
MatchingBOMs(s) == {b \in BOMTable : StartsWith(s, b.bytes)}

Prefix(s, n) == SubSeq(s, 1, IF Len(s) < n THEN Len(s) ELSE n)

(* Whether p is the beginning of some signature of the table. *)
IsBOMPrefix(p) == \E b \in BOMTable : StartsWith(b.bytes, p)

(* The longest prefix of s that is the beginning of a signature: a prefix *)
(* of such a beginning is one too, so it is the last k that qualifies.    *)
BOMLead(s) ==
  Prefix(s, CHOOSE k \in 0..Len(s) :
              /\ IsBOMPrefix(Prefix(s, k))
              /\ k < Len(s) => ~IsBOMPrefix(Prefix(s, k + 1)))

(* Python truthiness of _last_char: None and 0 are both falsy. *)
Truthy(c) == c # NoChar /\ c # 0

VARIABLES
  result,              \* self.result
  done,                \* self.done
  got_data,            \* self._got_data
  input_state,         \* self._input_state
  last_char,           \* self._last_char
  has_win_bytes,       \* self._has_win_bytes
  esc_charset_prober,  \* self._esc_charset_prober
  utf1632_prober,      \* self._utf1632_prober
  charset_probers,     \* self._charset_probers
  last_op,             \* the public method called last
  raised,              \* whether that call ended in an exception
  returned,            \* <<v>> when that call returned the verdict v, else <<>>
  nbytes,              \* history: how many bytes feed has consumed since construction/reset
  nchunks,             \* history: in how many non-empty chunks they came
  bom_lead,            \* history: the longest prefix of those bytes that is a
                       \*          prefix of a BOM signature
  first_boms,          \* history: the labels of the BOM signatures the first
                       \*          non-empty chunk began with
  plain_ascii,         \* history: every byte consumed was <= 0x7F and not ESC (0x1B)
  stream,              \* history, kept by ChunkSpec only: the bytes consumed
  analysis,            \* a CharDistributionAnalysis object
  analysis_call,       \* history: <<char, char_len>> of the last feed of that
                       \*          object, <<>> after construction and reset
  prober,              \* a UTF1632Prober object used on its own
  prober_call,         \* the method of that object called last, and whether
                       \* the call ended in an exception
  fed,                 \* history: the bytes that object was fed since its reset
  buf,                 \* the argument of filter_international_words
  filtered             \* <<out>> when the function returned out, else <<>>

detector == <<result, done, got_data, input_state, last_char, has_win_bytes,
              esc_charset_prober, utf1632_prober, charset_probers>>

vars == <<result, done, got_data, input_state, last_char, has_win_bytes,
          esc_charset_prober, utf1632_prober, charset_probers,
          last_op, raised, returned, nbytes, nchunks, bom_lead, first_boms,
          plain_ascii, stream, analysis, analysis_call, prober, prober_call,
          fed, buf, filtered>>

(* The detector with its call interface and history. *)
detection == <<result, done, got_data, input_state, last_char, has_win_bytes,
               esc_charset_prober, utf1632_prober, charset_probers,
               last_op, raised, returned, nbytes, nchunks, bom_lead,
               first_boms, plain_ascii, stream>>

(* The objects the detector specifications leave alone. *)
aside == <<analysis, analysis_call, prober, prober_call, fed, buf, filtered>>


(***************************************************************************)
(* UniversalDetector.feed: the BOM check and the input-class loop          *)
(***************************************************************************)

(* Faulty variant: the UTF-8 signature is not tested. *)
BOMCheck_NoUTF8(byte_str) ==
  IF StartsWith(byte_str, BOM_UTF32_LE) THEN "UTF-32LE"
  ELSE IF StartsWith(byte_str, BOM_UTF32_BE) THEN "UTF-32BE"
  ELSE IF StartsWith(byte_str, BOM_UTF16_LE) THEN "UTF-16LE"
  ELSE IF StartsWith(byte_str, BOM_UTF16_BE) THEN "UTF-16BE"
  ELSE None

(* Faulty variant: the 2-byte UTF-16 signatures are tested before the UTF-32 ones. *)
BOMCheck_UTF16First(byte_str) ==
  IF StartsWith(byte_str, BOM_UTF8) THEN "UTF-8-SIG"
  ELSE IF StartsWith(byte_str, BOM_UTF16_LE) THEN "UTF-16LE"
  ELSE IF StartsWith(byte_str, BOM_UTF16_BE) THEN "UTF-16BE"
  ELSE IF StartsWith(byte_str, BOM_UTF32_LE) THEN "UTF-32LE"
  ELSE IF StartsWith(byte_str, BOM_UTF32_BE) THEN "UTF-32BE"
  ELSE None

(* The five startswith tests, in the code's order; the label or None. *)
BOMCheck(byte_str) ==
  IF StartsWith(byte_str, BOM_UTF8) THEN "UTF-8-SIG"
  ELSE IF StartsWith(byte_str, BOM_UTF32_LE) THEN "UTF-32LE"
  ELSE IF StartsWith(byte_str, BOM_UTF32_BE) THEN "UTF-32BE"
  ELSE IF StartsWith(byte_str, BOM_UTF16_LE) THEN "UTF-16LE"
  ELSE IF StartsWith(byte_str, BOM_UTF16_BE) THEN "UTF-16BE"
  ELSE None

(* "if not self._last_char": the guard of the BOM check. *)
BOMCheckApplies(lc) == ~Truthy(lc)

(* Faulty variant: an ASCII byte in state ESC_ASCII goes back to PURE_ASCII. *)
NextInputState_EscFallsBack(st, byte) ==
  IF st = PURE_ASCII
    THEN IF byte > 127
           THEN IF byte > 192 THEN HIGH_BYTE ELSE ESC_ASCII
           ELSE st
    ELSE IF st = ESC_ASCII
           THEN IF byte > 127 THEN HIGH_BYTE ELSE PURE_ASCII
           ELSE st

(* One iteration of "for byte in byte_str": the input-class transition. *)
NextInputState(st, byte) ==
  IF st = PURE_ASCII
    THEN IF byte > 127
           THEN IF byte > 192 THEN HIGH_BYTE ELSE ESC_ASCII
           ELSE st
    ELSE IF st = ESC_ASCII
           THEN IF byte > 127 THEN HIGH_BYTE ELSE st
           ELSE st

(* The same iteration: _has_win_bytes is set only in state HIGH_BYTE. *)
NextHasWinBytes(st, hw, byte) ==
  IF st = HIGH_BYTE /\ 128 <= byte /\ byte <= 159 THEN TRUE ELSE hw

ClassifyByte(c, byte) ==
  [input_state |-> NextInputState(c.input_state, byte),
   has_win_bytes |-> NextHasWinBytes(c.input_state, c.has_win_bytes, byte),
   last_char |-> byte]

(* Faulty variant: the loop looks at the last byte of the chunk only. *)
ClassifyLoop_LastByteOnly(c, byte_str) ==
  IF byte_str = <<>> THEN c ELSE ClassifyByte(c, byte_str[Len(byte_str)])

(* "for byte in byte_str": the loop over the chunk. *)
RECURSIVE ClassifyLoop(_, _)
ClassifyLoop(c, byte_str) ==
  IF byte_str = <<>> THEN c
  ELSE ClassifyLoop(ClassifyByte(c, Head(byte_str)), Tail(byte_str))

(***************************************************************************)
(* Probers that live outside the four source files: the ESC prober and the *)
(* three group probers.  Only their contract is known: feed returns a      *)
(* probing state, terminal states are kept, and a prober that found its    *)
(* charset exposes a name, a confidence and a language.                    *)
(***************************************************************************)

EscVerdicts == {Verdict("ISO-2022-JP", 99, "Japanese")}

GroupVerdicts ==
  {Verdict("Big5", 99, "Chinese"), Verdict("windows-1251", 15, "Russian")}

NewProber(k) ==
  [kind |-> k, state |-> DETECTING, charset_name |-> None,
   confidence |-> 0, language |-> None]

(* The records a contract-only prober can be after one more feed. *)
ContractFeed(p, verdicts) ==
  IF p.state # DETECTING THEN {p}
  ELSE {p, [p EXCEPT !.state = NOT_ME, !.confidence = 1]}
       \cup {[p EXCEPT !.state = st, !.charset_name = v.encoding,
                       !.confidence = v.confidence, !.language = v.language] :
               st \in {FOUND_IT}, v \in verdicts}

(***************************************************************************)
(* UTF1632Prober (utf1632prober.py) and its base class (charsetprober.py)  *)
(***************************************************************************)

MIN_CHARS_FOR_DETECTION == 20

(* EXPECTED_RATIO = 0.94, in hundredths. *)
EXPECTED_RATIO == 94

(* class CharSetProber defines __init__, filter_international_words and    *)
(* remove_xml_tags only: there is no reset method to call.                 *)
CharSetProberHasReset == FALSE

(* UTF1632Prober.__init__ ends in self.reset(), whose first statement is   *)
(* CharSetProber.reset(self): the constructor returns only if that exists. *)
UTF1632ProberConstructs == CharSetProberHasReset

(* The attributes __init__ and reset assign. *)
NewUTF1632Prober ==
  [kind |-> "UTF1632", state |-> DETECTING, charset_name |-> None,
   position |-> 0,
   zeros_at_mod |-> <<0, 0, 0, 0>>, nonzeros_at_mod |-> <<0, 0, 0, 0>>,
   quad |-> <<0, 0, 0, 0>>,
   invalid_utf16be |-> FALSE, invalid_utf16le |-> FALSE,
   invalid_utf32be |-> FALSE, invalid_utf32le |-> FALSE,
   first_half_surrogate_pair_detected_16be |-> FALSE,
   first_half_surrogate_pair_detected_16le |-> FALSE]

RECURSIVE IntFromBytes(_)
(* int.from_bytes(s, byteorder="big"); the empty string gives 0. *)
IntFromBytes(s) ==
  IF s = <<>> THEN 0
  ELSE IntFromBytes(SubSeq(s, 1, Len(s) - 1)) * 256 + s[Len(s)]

RECURSIVE Reversed(_)
Reversed(s) == IF s = <<>> THEN <<>> ELSE Reversed(Tail(s)) \o <<Head(s)>>

(* The Python slice q[a:b] of a list, a and b counted from 0. *)
PySlice(q, a, b) == IF b <= a THEN <<>> ELSE SubSeq(q, a + 1, b)

(* A first byte other than 0 makes the value at least 2^24, above         *)
(* 0x10FFFF; otherwise the value is that of the last three bytes.          *)
validate_utf32_characters(quad) ==
  LET value == IntFromBytes(SubSeq(quad, 2, 4))
  IN /\ quad[1] = 0
     /\ 0 <= value /\ value <= 1114111 /\ ~(55296 <= value /\ value <= 57343)

validate_utf16_characters(pair) ==
  LET value == IntFromBytes(pair)
  IN IF 55296 <= value /\ value <= 56319 THEN TRUE
     ELSE IF 56320 <= value /\ value <= 57343 THEN TRUE
     ELSE (0 <= value /\ value < 55296) \/ (57344 <= value /\ value <= 65535)

SumSeq4(q) == q[1] + q[2] + q[3] + q[4]

(* Faulty variant: each sum of zeros is taken as a share of the bytes at    *)
(* its own positions, not of all the bytes.                                *)
CheckEncoding_ShareOfPositions(p) ==
  LET z == p.zeros_at_mod
      total_chars == SumSeq4(p.zeros_at_mod) + SumSeq4(p.nonzeros_at_mod)
      Exceeds(n, k) == 100 * 4 * n > EXPECTED_RATIO * k * total_chars
  IN IF total_chars < MIN_CHARS_FOR_DETECTION THEN None
     ELSE IF Exceeds(z[1] + z[2] + z[3], 3) /\ ~p.invalid_utf32be THEN "UTF-32BE"
     ELSE IF Exceeds(z[2] + z[3] + z[4], 3) /\ ~p.invalid_utf32le THEN "UTF-32LE"
     ELSE IF Exceeds(z[1] + z[2], 2) /\ ~p.invalid_utf16be THEN "UTF-16BE"
     ELSE IF Exceeds(z[2] + z[3], 2) /\ ~p.invalid_utf16le THEN "UTF-16LE"
     ELSE None

(* _check_encoding: the charset name it selects, or None for "return False". *)
CheckEncoding(p) ==
  LET z == p.zeros_at_mod
      total_chars == SumSeq4(p.zeros_at_mod) + SumSeq4(p.nonzeros_at_mod)
      Exceeds(n) == 100 * n > EXPECTED_RATIO * total_chars
  IN IF total_chars < MIN_CHARS_FOR_DETECTION THEN None
     ELSE IF Exceeds(z[1] + z[2] + z[3]) /\ ~p.invalid_utf32be THEN "UTF-32BE"
     ELSE IF Exceeds(z[2] + z[3] + z[4]) /\ ~p.invalid_utf32le THEN "UTF-32LE"
     ELSE IF Exceeds(z[1] + z[2]) /\ ~p.invalid_utf16be THEN "UTF-16BE"
     ELSE IF Exceeds(z[2] + z[3]) /\ ~p.invalid_utf16le THEN "UTF-16LE"
     ELSE None

UTF1632Confidence(p) ==
  IF p.state = FOUND_IT THEN 99 ELSE IF p.state = NOT_ME THEN 1 ELSE 50

(* The surrogate bookkeeping of one byte order: [invalid, first_half]. *)
Utf16Check(invalid, first_half, pair) ==
  LET value == IntFromBytes(pair)
  IN IF invalid THEN [invalid |-> invalid, first_half |-> first_half]
     ELSE IF ~validate_utf16_characters(pair)
       THEN [invalid |-> TRUE, first_half |-> first_half]
     ELSE IF 55296 <= value /\ value <= 56319
       THEN [invalid |-> FALSE, first_half |-> TRUE]
     ELSE IF 56320 <= value /\ value <= 57343
       THEN [invalid |-> ~first_half, first_half |-> FALSE]
     ELSE [invalid |-> FALSE, first_half |-> first_half]

(* The body of "for byte in byte_str" for one byte: the prober after it    *)
(* and whether the loop breaks.                                            *)
UTF1632Step(p, byte) ==
  LET m == p.position % 4
      quad == [p.quad EXCEPT ![m + 1] = byte]
      zeros == IF byte = 0 THEN [p.zeros_at_mod EXCEPT ![m + 1] = @ + 1]
               ELSE p.zeros_at_mod
      nonzeros == IF byte = 0 THEN p.nonzeros_at_mod
                  ELSE [p.nonzeros_at_mod EXCEPT ![m + 1] = @ + 1]
      inv32be == IF m = 3 /\ ~p.invalid_utf32be
                   THEN ~validate_utf32_characters(quad)
                   ELSE p.invalid_utf32be
      inv32le == IF m = 3 /\ ~p.invalid_utf32le
                   THEN ~validate_utf32_characters(Reversed(quad))
                   ELSE p.invalid_utf32le
      pair == PySlice(quad, (p.position - 1) % 4, (p.position + 1) % 4)
      be == IF p.position % 2 = 1
              THEN Utf16Check(p.invalid_utf16be,
                              p.first_half_surrogate_pair_detected_16be, pair)
              ELSE [invalid |-> p.invalid_utf16be,
                    first_half |-> p.first_half_surrogate_pair_detected_16be]
      le == IF p.position % 2 = 1
              THEN Utf16Check(p.invalid_utf16le,
                              p.first_half_surrogate_pair_detected_16le,
                              Reversed(pair))
              ELSE [invalid |-> p.invalid_utf16le,
                    first_half |-> p.first_half_surrogate_pair_detected_16le]
      q == [p EXCEPT !.quad = quad, !.zeros_at_mod = zeros,
                     !.nonzeros_at_mod = nonzeros,
                     !.invalid_utf32be = inv32be, !.invalid_utf32le = inv32le,
                     !.invalid_utf16be = be.invalid,
                     !.first_half_surrogate_pair_detected_16be = be.first_half,
                     !.invalid_utf16le = le.invalid,
                     !.first_half_surrogate_pair_detected_16le = le.first_half,
                     !.position = p.position + 1]
      name == IF q.position >= MIN_CHARS_FOR_DETECTION THEN CheckEncoding(q)
              ELSE None
  IN IF name # None
       THEN [p |-> [q EXCEPT !.charset_name = name, !.state = FOUND_IT],
             brk |-> TRUE]
       ELSE [p |-> q, brk |-> FALSE]

RECURSIVE UTF1632Loop(_, _)
UTF1632Loop(p, byte_str) ==
  IF byte_str = <<>> THEN p
  ELSE LET r == UTF1632Step(p, Head(byte_str))
       IN IF r.brk THEN r.p ELSE UTF1632Loop(r.p, Tail(byte_str))

(* UTF1632Prober.feed: the prober after the call; the call returns .state. *)
UTF1632Feed(p, byte_str) ==
  IF p.state = NOT_ME THEN p ELSE UTF1632Loop(p, byte_str)

(***************************************************************************)
(* CharDistributionAnalysis                                                *)
(***************************************************************************)

(* MINIMUM_DATA_THRESHOLD = 3 *)
MINIMUM_DATA_THRESHOLD == 3

(* Confidences of the analysis are exact fractions num/den with den > 0.   *)
Frac(n, d) == [num |-> n, den |-> d]

FracLT(a, b) == a.num * b.den < b.num * a.den

FracLE(a, b) == a.num * b.den <= b.num * a.den

FracEq(a, b) == a.num * b.den = b.num * a.den

(* SURE_YES = 0.99 *)
SURE_YES == Frac(99, 100)

(* SURE_NO = 0.01 *)
SURE_NO == Frac(1, 100)

(* _char_to_freq_order is a dict.  Its keys are byte strings ("bytes", as  *)
(* get_order looks them up) or the indices dict(enumerate(TABLE)) makes    *)
(* ("int", as the subclasses build it); entries maps each key to its order.*)
EmptyTable == [keys |-> "bytes", entries |-> <<>>]

(* __init__ followed by the assignments of a subclass: the table, its      *)
(* size, the typical distribution ratio in hundredths, and reset().        *)
NewAnalysis(table, table_size, ratio) ==
  [char_to_freq_order |-> table, table_size |-> table_size,
   typical_distribution_ratio |-> ratio,
   done |-> FALSE, total_chars |-> 0, freq_chars |-> 0]

(* get_order of the base class: len(char) != 2 gives -1, else              *)
(* self._char_to_freq_order.get(char, -1) with the byte string as the key; *)
(* a byte string equals no int key.                                        *)
get_order(a, char) ==
  IF Len(char) # 2 THEN -1
  ELSE IF a.char_to_freq_order.keys = "bytes"
          /\ char \in DOMAIN a.char_to_freq_order.entries
    THEN a.char_to_freq_order.entries[char]
  ELSE -1

(* feed(char, char_len): the object after the call. *)
AnalysisFeed(a, char, char_len) ==
  LET order == IF char_len = 2 THEN get_order(a, char) ELSE -1
  IN IF order # -1
       THEN [a EXCEPT !.total_chars = @ + 1,
                      !.freq_chars = IF order < a.table_size THEN @ + 1 ELSE @]
       ELSE a

(* Faulty variant: the result is not capped at SURE_YES. *)
get_confidence_Uncapped(a) ==
  IF a.total_chars <= 0 \/ a.freq_chars <= MINIMUM_DATA_THRESHOLD THEN SURE_NO
  ELSE IF a.total_chars # a.freq_chars
    THEN Frac(100 * a.freq_chars,
              (a.total_chars - a.freq_chars) * a.typical_distribution_ratio)
  ELSE SURE_YES

(* Faulty variant: the amount of data is not tested. *)
get_confidence_NoMinimumData(a) ==
  IF a.total_chars # a.freq_chars
    THEN LET r == Frac(100 * a.freq_chars,
                       (a.total_chars - a.freq_chars)
                         * a.typical_distribution_ratio)
         IN IF FracLT(r, SURE_YES) THEN r ELSE SURE_YES
  ELSE SURE_YES

(* get_confidence: r = freq / ((total - freq) * ratio), the ratio being in *)
(* hundredths.                                                             *)
get_confidence(a) ==
  IF a.total_chars <= 0 \/ a.freq_chars <= MINIMUM_DATA_THRESHOLD THEN SURE_NO
  ELSE IF a.total_chars # a.freq_chars
    THEN LET r == Frac(100 * a.freq_chars,
                       (a.total_chars - a.freq_chars)
                         * a.typical_distribution_ratio)
         IN IF FracLT(r, SURE_YES) THEN r ELSE SURE_YES
  ELSE SURE_YES

(***************************************************************************)
(* CharSetProber.filter_international_words                                *)
(***************************************************************************)

(* [a-zA-Z] *)
Alphabet == (65..90) \cup (97..122)

(* [\x80-\xff] *)
International == 128..255

(* The index after the longest run of bytes of S that starts at index i.   *)
RunEnd(b, i, S) ==
  CHOOSE j \in i..(Len(b) + 1) :
    /\ \A k \in i..(j - 1) : b[k] \in S
    /\ (j = Len(b) + 1 \/ b[j] \notin S)

(* INTERNATIONAL_WORDS_PATTERN matched at index i: letters, one or more    *)
(* international bytes, letters, and one marker if one follows.  The index *)
(* after the match, or 0 when the pattern does not match there.  The three *)
(* classes are disjoint, so the greedy runs are the only way to match.     *)
PatternMatchEnd(b, i) ==
  LET a == RunEnd(b, i, Alphabet)
      h == RunEnd(b, a, International)
      t == RunEnd(b, h, Alphabet)
  IN IF h = a THEN 0
     ELSE IF t <= Len(b) /\ b[t] \notin (Alphabet \cup International)
       THEN t + 1
     ELSE t

RECURSIVE PatternSub(_, _)
(* INTERNATIONAL_WORDS_PATTERN.sub(b" ", b) from index i on: each match,   *)
(* found leftmost first, becomes one space (32); other bytes are copied.   *)
PatternSub(b, i) ==
  IF i > Len(b) THEN <<>>
  ELSE LET e == PatternMatchEnd(b, i)
       IN IF e = 0 THEN <<b[i]>> \o PatternSub(b, i + 1)
          ELSE <<32>> \o PatternSub(b, e)

filter_international_words(b) == PatternSub(b, 1)

(***************************************************************************)
(* UniversalDetector: feed, close, reset                                   *)
(***************************************************************************)

(* Faulty variant: feed does not test self.done. *)
FeedReturnsAtOnce_NoDoneTest(d, byte_str) == Len(byte_str) = 0

(* "if self.done: return" and "if not len(byte_str): return". *)
FeedReturnsAtOnce(d, byte_str) == d \/ Len(byte_str) = 0

(* prober.get_confidence() *)
GetConfidence(p) == IF p.kind = "UTF1632" THEN UTF1632Confidence(p) ELSE p.confidence

(* Whether the prober object has the attributes charset_name and language: *)
(* UTF1632Prober only ever assigns _charset_name, and its base class has   *)
(* neither property.                                                       *)
HasVerdictAttrs(p) == p.kind # "UTF1632"

ProberVerdict(p) == Verdict(p.charset_name, GetConfidence(p), p.language)

(* One way the HIGH_BYTE branch of feed can end. *)
Outcome(r, u, cps, res, d) ==
  [raised |-> r, utf |-> u, cps |-> cps, result |-> res, done |-> d]

(* The HIGH_BYTE branch of feed: construct the probers when missing, then  *)
(* feed the chunk to each in turn until one returns FOUND_IT.              *)
HighByteOutcomes(byte_str, u_old, cps_old, res, d) ==
  IF u_old = NoProber /\ ~UTF1632ProberConstructs
    THEN {Outcome(TRUE, u_old, cps_old, res, d)}
    ELSE
      LET u0 == IF u_old = NoProber THEN NewUTF1632Prober ELSE u_old
          cps0 == IF cps_old = <<>>
                    THEN <<NewProber("MBCS"), NewProber("SBCS"), NewProber("Latin1")>>
                    ELSE cps_old
          u == UTF1632Feed(u0, byte_str)
          M == ContractFeed(cps0[1], GroupVerdicts)
          S == ContractFeed(cps0[2], GroupVerdicts)
          L == ContractFeed(cps0[3], GroupVerdicts)
          Found(X) == {x \in X : x.state = FOUND_IT}
          Going(X) == {x \in X : x.state # FOUND_IT}
      IN IF u.state = FOUND_IT
           THEN {Outcome(TRUE, u, cps0, res, d)}
           ELSE {Outcome(FALSE, u, <<m, cps0[2], cps0[3]>>, ProberVerdict(m), TRUE) :
                   m \in Found(M)}
                \cup {Outcome(FALSE, u, <<m, s, cps0[3]>>, ProberVerdict(s), TRUE) :
                        m \in Going(M), s \in Found(S)}
                \cup {Outcome(FALSE, u, <<m, s, l>>, ProberVerdict(l), TRUE) :
                        m \in Going(M), s \in Going(S), l \in Found(L)}
                \cup {Outcome(FALSE, u, <<m, s, l>>, res, d) :
                        m \in Going(M), s \in Going(S), l \in Going(L)}

(* One call of feed. *)
FeedCall(byte_str) ==
  /\ last_op' = "feed"
  /\ returned' = <<>>
  /\ IF FeedReturnsAtOnce(done, byte_str)
       THEN /\ raised' = FALSE
            /\ UNCHANGED detector
            /\ UNCHANGED <<nbytes, nchunks, bom_lead, first_boms, plain_ascii>>
       ELSE
         /\ nbytes' = nbytes + Len(byte_str)
         /\ nchunks' = nchunks + 1
         /\ bom_lead' = IF Len(bom_lead) = nbytes THEN BOMLead(bom_lead \o byte_str)
                                                 ELSE bom_lead
         /\ first_boms' = IF nbytes = 0
                            THEN {b.name : b \in MatchingBOMs(byte_str)}
                            ELSE first_boms
         /\ plain_ascii' = (plain_ascii /\ \A i \in 1..Len(byte_str) :
                                             byte_str[i] <= 127 /\ byte_str[i] # 27)
         /\ got_data' = TRUE
         /\ IF BOMCheckApplies(last_char) /\ BOMCheck(byte_str) # None
              THEN /\ result' = Verdict(BOMCheck(byte_str), 100, "")
                   /\ done' = TRUE
                   /\ raised' = FALSE
                   /\ UNCHANGED <<input_state, last_char, has_win_bytes,
                                  esc_charset_prober, utf1632_prober,
                                  charset_probers>>
              ELSE
                \E c \in {ClassifyLoop([input_state |-> input_state,
                                        has_win_bytes |-> has_win_bytes,
                                        last_char |-> last_char], byte_str)} :
                   /\ input_state' = c.input_state
                   /\ has_win_bytes' = c.has_win_bytes
                   /\ last_char' = c.last_char
                   /\ IF c.input_state = ESC_ASCII
                        THEN /\ \E e \in ContractFeed(
                                     IF esc_charset_prober = NoProber
                                       THEN NewProber("ESC")
                                       ELSE esc_charset_prober,
                                     EscVerdicts) :
                                  /\ esc_charset_prober' = e
                                  /\ IF e.state = FOUND_IT
                                       THEN /\ result' = ProberVerdict(e)
                                            /\ done' = TRUE
                                       ELSE UNCHANGED <<result, done>>
                             /\ raised' = FALSE
                             /\ UNCHANGED <<utf1632_prober, charset_probers>>
                      ELSE IF c.input_state = HIGH_BYTE
                        THEN /\ \E o \in HighByteOutcomes(byte_str, utf1632_prober,
                                                         charset_probers,
                                                         result, done) :
                                  /\ raised' = o.raised
                                  /\ utf1632_prober' = o.utf
                                  /\ charset_probers' = o.cps
                                  /\ result' = o.result
                                  /\ done' = o.done
                             /\ UNCHANGED esc_charset_prober
                      ELSE /\ raised' = FALSE
                           /\ UNCHANGED <<result, done, esc_charset_prober,
                                          utf1632_prober, charset_probers>>

(* A call of feed that keeps the stream within the bound. *)
Feed(byte_str) ==
  /\ nbytes + Len(byte_str) <= MaxStream
  /\ FeedCall(byte_str)

(* max(prober_confidences, key=...): the first prober of greatest confidence. *)
MaxProber(ps) ==
  ps[CHOOSE i \in 1..Len(ps) :
       /\ \A j \in 1..Len(ps) : GetConfidence(ps[j]) <= GetConfidence(ps[i])
       /\ \A j \in 1..(i - 1) : GetConfidence(ps[j]) < GetConfidence(ps[i])]

(* close(), input class HIGH_BYTE: the value of self.result afterwards. *)
CloseHighByte(res, u, cps, hw) ==
  LET probers == IF u # NoProber THEN <<u>> \o cps ELSE cps
  IN IF probers # <<>>
       THEN IF GetConfidence(MaxProber(probers)) > MINIMUM_THRESHOLD
                 /\ HasVerdictAttrs(MaxProber(probers))
              THEN ProberVerdict(MaxProber(probers))
              ELSE res
       ELSE IF hw THEN Verdict("windows-1252", 90, "") ELSE res

(* Faulty variant: the label is spelled in upper case. *)
CloseAscii_UpperCase == Verdict("ASCII", 100, "")

(* close(), input class PURE_ASCII. *)
CloseAscii == Verdict("ascii", 100, "")

(* Faulty variant: close always returns the fresh null verdict. *)
CloseReturnValue_AlwaysFresh(res) == NullVerdict

(* Faulty variant: the fresh null verdict has the language "" instead of None. *)
CloseReturnValue_EmptyLanguage(res) ==
  IF res.encoding # None THEN res ELSE Verdict(None, 0, "")

(* The last line of close: self.result, or a fresh null verdict. *)
CloseReturnValue(res) == IF res.encoding # None THEN res ELSE NullVerdict

(* Whether close() reaches "self.done = True". *)
CloseSetsDone(d, gd, st) == ~d /\ gd /\ st # PURE_ASCII

Close ==
  /\ last_op' = IF last_op \in {"close", "close_again"} THEN "close_again" ELSE "close"
  /\ raised' = FALSE
  /\ UNCHANGED <<nbytes, nchunks, bom_lead, first_boms, plain_ascii>>
  /\ UNCHANGED <<got_data, input_state, last_char, has_win_bytes,
                 esc_charset_prober, utf1632_prober, charset_probers>>
  /\ IF done \/ ~got_data
       THEN /\ returned' = <<result>>
            /\ UNCHANGED <<result, done>>
       ELSE IF input_state = PURE_ASCII
         THEN /\ result' = CloseAscii
              /\ returned' = <<result'>>
              /\ done' = (done \/ CloseSetsDone(done, got_data, input_state))
         ELSE /\ result' = IF input_state = HIGH_BYTE
                             THEN CloseHighByte(result, utf1632_prober,
                                                charset_probers, has_win_bytes)
                             ELSE result
              /\ done' = (done \/ CloseSetsDone(done, got_data, input_state))
              /\ returned' = <<CloseReturnValue(result')>>

(* Faulty variant: reset leaves _has_win_bytes as it is. *)
Reset_KeepsWinBytes ==
  /\ result' = NullVerdict
  /\ done' = FALSE
  /\ got_data' = FALSE
  /\ input_state' = PURE_ASCII
  /\ last_char' = NoChar
  /\ UNCHANGED has_win_bytes
  /\ esc_charset_prober' = NoProber
  /\ utf1632_prober' = NoProber
  /\ charset_probers' = <<>>
  /\ last_op' = "reset"
  /\ raised' = FALSE
  /\ returned' = <<>>
  /\ nbytes' = 0
  /\ nchunks' = 0
  /\ bom_lead' = <<>>
  /\ first_boms' = {}
  /\ plain_ascii' = TRUE

Reset ==
  /\ result' = NullVerdict
  /\ done' = FALSE
  /\ got_data' = FALSE
  /\ input_state' = PURE_ASCII
  /\ last_char' = NoChar
  /\ has_win_bytes' = FALSE
  /\ esc_charset_prober' = NoProber
  /\ utf1632_prober' = NoProber
  /\ charset_probers' = <<>>
  /\ last_op' = "reset"
  /\ raised' = FALSE
  /\ returned' = <<>>
  /\ nbytes' = 0
  /\ nchunks' = 0
  /\ bom_lead' = <<>>
  /\ first_boms' = {}
  /\ plain_ascii' = TRUE

(* UniversalDetector.__init__ assigns the attributes and calls reset(). *)
DetectorInit ==
  /\ result = NullVerdict
  /\ done = FALSE
  /\ got_data = FALSE
  /\ input_state = PURE_ASCII
  /\ last_char = NoChar
  /\ has_win_bytes = FALSE
  /\ esc_charset_prober = NoProber
  /\ utf1632_prober = NoProber
  /\ charset_probers = <<>>
  /\ last_op = "init"
  /\ raised = FALSE
  /\ returned = <<>>
  /\ nbytes = 0
  /\ nchunks = 0
  /\ bom_lead = <<>>
  /\ first_boms = {}
  /\ plain_ascii = TRUE
  /\ stream = <<>>

(* CharDistributionAnalysis.__init__ of the base class. *)
AnalysisIdle == analysis = NewAnalysis(EmptyTable, 0, 0) /\ analysis_call = <<>>

(* A UTF1632Prober with the attributes __init__ and reset assign; the      *)
(* constructor ends in an exception unless CharSetProber.reset exists.     *)
ProberIdle ==
  /\ prober = NewUTF1632Prober
  /\ prober_call = [op |-> "init", raised |-> ~UTF1632ProberConstructs]
  /\ fed = <<>>

(* No call of filter_international_words yet. *)
FilterIdle == buf = <<>> /\ filtered = <<>>

(* The other objects, as constructed and not yet used. *)
AsideInit == AnalysisIdle /\ ProberIdle /\ FilterIdle

Init == DetectorInit /\ AsideInit

Next ==
  \/ \E byte_str \in ChunksUpTo(MaxStream - nbytes) :
       Feed(byte_str) /\ UNCHANGED <<stream, aside>>
  \/ Close /\ UNCHANGED <<stream, aside>>
  \/ Reset /\ UNCHANGED <<stream, aside>>

Spec == Init /\ [][Next]_vars

(***************************************************************************)
(* The same detector under the same calls, with the consumed bytes kept,   *)
(* to compare a chunked run with the run that feeds the bytes at once.     *)
(***************************************************************************)

(* The byte values of the chunked runs: NUL, 'A', a Windows-range byte and *)
(* the two bytes of the UTF-16 BOMs.                                       *)
ChunkBytes == {0, 65, 146, 254, 255}

ChunkFeed(byte_str) ==
  /\ Feed(byte_str)
  /\ stream' = IF FeedReturnsAtOnce(done, byte_str) THEN stream
                                                    ELSE stream \o byte_str
  /\ UNCHANGED aside

ChunkNext ==
  \/ \E byte_str \in UNION {[1..k -> ChunkBytes] : k \in 0..(MaxStream - nbytes)} :
       ChunkFeed(byte_str)
  \/ Close /\ UNCHANGED <<stream, aside>>
  \/ Reset /\ stream' = <<>> /\ UNCHANGED aside

ChunkSpec == Init /\ [][ChunkNext]_vars

(* The values close() can return in the run new(); feed(B); close(): the   *)
(* steps of feed and close applied to the state reset() leaves.            *)
DetectVerdicts(B) ==
  IF FeedReturnsAtOnce(FALSE, B) THEN {NullVerdict}
  ELSE IF BOMCheckApplies(NoChar) /\ BOMCheck(B) # None
    THEN {Verdict(BOMCheck(B), 100, "")}
  ELSE
    LET c == ClassifyLoop([input_state |-> PURE_ASCII, has_win_bytes |-> FALSE,
                           last_char |-> NoChar], B)
    IN IF c.input_state = PURE_ASCII THEN {CloseAscii}
       ELSE IF c.input_state = ESC_ASCII
         THEN {CloseReturnValue(IF e.state = FOUND_IT THEN ProberVerdict(e)
                                                      ELSE NullVerdict) :
                 e \in ContractFeed(NewProber("ESC"), EscVerdicts)}
       ELSE {CloseReturnValue(
               IF o.done THEN o.result
               ELSE CloseHighByte(o.result, o.utf, o.cps, c.has_win_bytes)) :
               o \in HighByteOutcomes(B, NoProber, <<>>, NullVerdict, FALSE)}

(***************************************************************************)
(* The detector fed BOM-less UTF-16 text of ASCII-range characters, in     *)
(* chunks of up to MaxTextChunk bytes.                                     *)
(***************************************************************************)

(* Bound: the length of the text in bytes. *)
TextLen == 40

(* Bound: the length of a chunk of the text. *)
MaxTextChunk == 10

(* 00 41 00 42 ...: the letters from 'A' on, as UTF-16BE. *)
UTF16BEText == [i \in 1..TextLen |-> IF i % 2 = 1 THEN 0 ELSE 64 + (i \div 2)]

(* 41 00 42 00 ...: the same letters, as UTF-16LE. *)
UTF16LEText == [i \in 1..TextLen |-> IF i % 2 = 1 THEN 64 + ((i + 1) \div 2) ELSE 0]

TextFeed(text, k) ==
  /\ nbytes + k <= TextLen
  /\ stream = SubSeq(text, 1, nbytes)
  /\ FeedCall(SubSeq(text, nbytes + 1, nbytes + k))
  /\ stream' = IF done THEN stream ELSE SubSeq(text, 1, nbytes + k)
  /\ UNCHANGED aside

TextNext ==
  \/ \E text \in {UTF16BEText, UTF16LEText} : \E k \in 1..MaxTextChunk :
       TextFeed(text, k)
  \/ Close /\ UNCHANGED <<stream, aside>>
  \/ Reset /\ stream' = <<>> /\ UNCHANGED aside

TextSpec == Init /\ [][TextNext]_vars

(***************************************************************************)
(* A CharDistributionAnalysis on its own: any table, table size and        *)
(* positive typical ratio, under feed and reset.                           *)
(***************************************************************************)

(* Bound: how many characters the analysis counts. *)
MaxDistChars == 72

(* The two-byte characters with an order in ByteTable, then one without,   *)
(* a one-byte character, and the two characters whose two-byte integer     *)
(* keys, 0 and 1, are the indices of EnumTable.                            *)
DistChars == {<<164, 161>>, <<164, 162>>, <<255, 255>>, <<65>>,
              <<0, 0>>, <<1, 0>>}

(* A table keyed by byte strings, as get_order reads it: order 0 and 5.    *)
ByteTable ==
  [keys |-> "bytes",
   entries |-> [c \in {<<164, 161>>, <<164, 162>>} |->
                  IF c = <<164, 161>> THEN 0 ELSE 5]]

(* dict(enumerate((0, 5))), as the subclasses build it: {0: 0, 1: 5}.      *)
EnumTable == [keys |-> "int", entries |-> <<0, 5>>]

DistTableSizes == {0, 1, 6}

(* Typical distribution ratios 0.75 and 6.0 (the EUC-TW and EUC-KR values),*)
(* in hundredths.                                                          *)
DistRatios == {75, 600}

DistInit ==
  /\ DetectorInit /\ ProberIdle /\ FilterIdle
  /\ \E t \in {ByteTable, EnumTable} : \E n \in DistTableSizes :
       \E r \in DistRatios : analysis = NewAnalysis(t, n, r)
  /\ analysis_call = <<>>

DistFeed(char, char_len) ==
  /\ analysis.total_chars < MaxDistChars
  /\ analysis' = AnalysisFeed(analysis, char, char_len)
  /\ analysis_call' = <<char, char_len>>
  /\ UNCHANGED <<detection, prober, prober_call, fed, buf, filtered>>

(* reset(): done and both counters are cleared. *)
DistReset ==
  /\ analysis' = [analysis EXCEPT !.done = FALSE, !.total_chars = 0,
                                  !.freq_chars = 0]
  /\ analysis_call' = <<>>
  /\ UNCHANGED <<detection, prober, prober_call, fed, buf, filtered>>

DistNext ==
  \/ \E char \in DistChars : \E char_len \in {1, 2} : DistFeed(char, char_len)
  \/ DistReset

DistSpec == DistInit /\ [][DistNext]_vars

(***************************************************************************)
(* A UTF1632Prober on its own, holding the attributes __init__ and reset   *)
(* assign and the state its methods read, under feed and reset.            *)
(***************************************************************************)

(* Bound: how many bytes the prober is fed between two resets. *)
MaxProberBytes == 6

(* Bound: the length of one chunk. *)
MaxProberChunk == 2

(* NUL, 'A', and the lead bytes of a high (0xD8) and a low (0xDC)          *)
(* surrogate.                                                              *)
ProberBytes == {0, 65, 216, 220}

ProberInit == DetectorInit /\ AnalysisIdle /\ ProberIdle /\ FilterIdle

ProberFeed(byte_str) ==
  /\ Len(fed) + Len(byte_str) <= MaxProberBytes
  /\ prober' = UTF1632Feed(prober, byte_str)
  /\ prober_call' = [op |-> "feed", raised |-> FALSE]
  /\ fed' = fed \o byte_str
  /\ UNCHANGED <<detection, analysis, analysis_call, buf, filtered>>

(* reset(): its first statement is CharSetProber.reset(self); when that    *)
(* does not exist the call ends there in an AttributeError and assigns     *)
(* nothing, else every attribute goes back to its first value.             *)
ProberReset ==
  /\ prober_call' = [op |-> "reset", raised |-> ~CharSetProberHasReset]
  /\ IF CharSetProberHasReset
       THEN prober' = NewUTF1632Prober /\ fed' = <<>>
       ELSE UNCHANGED <<prober, fed>>
  /\ UNCHANGED <<detection, analysis, analysis_call, buf, filtered>>

ProberNext ==
  \/ \E byte_str \in UNION {[1..k -> ProberBytes] : k \in 1..MaxProberChunk} :
       ProberFeed(byte_str)
  \/ ProberReset

ProberSpec == ProberInit /\ [][ProberNext]_vars

(***************************************************************************)
(* The same prober fed streams long enough for _check_encoding to run,     *)
(* in chunks of one or two bytes; the bytes fed are not kept.              *)
(***************************************************************************)

(* Bound: how many bytes the prober is fed. *)
MaxCountBytes == 27

(* A zero byte and a non-zero one ('A'): all that the counters tell apart. *)
CountBytes == {0, 65}

CountFeed(byte_str) ==
  /\ prober.position + Len(byte_str) <= MaxCountBytes
  /\ prober' = UTF1632Feed(prober, byte_str)
  /\ prober_call' = [op |-> "feed", raised |-> FALSE]
  /\ UNCHANGED <<detection, analysis, analysis_call, fed, buf, filtered>>

CountNext ==
  \E byte_str \in UNION {[1..k -> CountBytes] : k \in 1..2} : CountFeed(byte_str)

CountSpec == ProberInit /\ [][CountNext]_vars

(***************************************************************************)
(* filter_international_words applied to every short buffer.               *)
(***************************************************************************)

(* Bound: the length of the buffer. *)
MaxBufLen == 4

(* 'a', e-acute in Latin-1, and the markers space and comma. *)
FilterBytes == {97, 233, 32, 44}

FilterInit ==
  /\ DetectorInit /\ AnalysisIdle /\ ProberIdle
  /\ buf \in UNION {[1..k -> FilterBytes] : k \in 0..MaxBufLen}
  /\ filtered = <<>>

(* One call of the function on the buffer. *)
Filter ==
  /\ filtered' = <<filter_international_words(buf)>>
  /\ UNCHANGED <<detection, analysis, analysis_call, prober, prober_call, fed,
               buf>>

FilterNext == Filter

FilterSpec == FilterInit /\ [][FilterNext]_vars

(***************************************************************************)
(* Properties                                                              *)
(***************************************************************************)

CloseOps == {"close", "close_again"}

(* The label of the longest signature among those named in names. *)
LongestLabel(names) ==
  (CHOOSE b \in BOMTable :
     /\ b.name \in names
     /\ \A c \in BOMTable : c.name \in names => Len(c.bytes) <= Len(b.bytes)).name

InputRank(st) == IF st = PURE_ASCII THEN 0 ELSE IF st = ESC_ASCII THEN 1 ELSE 2

(* C1: once done is true, a call of feed, whatever the buffer, leaves      *)
(* result, done, the input class, has_win_bytes, last_char and every       *)
(* prober unchanged.                                                       *)
C1_FeedNoOpWhenDone ==
  [][(done /\ last_op' = "feed") =>
       UNCHANGED <<result, done, input_state, has_win_bytes, last_char,
                   esc_charset_prober, utf1632_prober, charset_probers>>]_vars

(* feed was called after close() had set done with the fallback verdict. *)
C1_Witness ==
  /\ last_op = "feed"
  /\ done
  /\ input_state = HIGH_BYTE
  /\ result = Verdict("windows-1252", 90, "")

(* C2: close sets done and freezes the verdict: after a close() that       *)
(* follows any feed of data (whatever the input class, PURE_ASCII          *)
(* included) done is true, and the feed that follows such a close() does   *)
(* not change result.                                                      *)
C2_CloseSetsDoneAndFreezes ==
  [][/\ (last_op' \in CloseOps /\ got_data') => done'
     /\ (last_op \in CloseOps /\ got_data /\ last_op' = "feed") =>
          result' = result]_vars

(* C3: a close() that directly follows a close() returns the same verdict  *)
(* and leaves result, done, the input class and has_win_bytes as they were.*)
C3_IdempotentClose ==
  [][(last_op \in CloseOps /\ last_op' \in CloseOps) =>
       /\ returned' = returned
       /\ UNCHANGED <<result, done, input_state, has_win_bytes>>]_vars

(* close() was called twice in a row on a detector that had consumed data. *)
C3_Witness == last_op = "close_again" /\ got_data /\ nbytes > 1

(* C4: the value close() returns equals the result attribute, field by     *)
(* field.                                                                  *)
C4_CloseReturnsResult == last_op \in CloseOps => returned = <<result>>

(* close() computed its return value on the path that ends the method. *)
C4_Witness ==
  /\ last_op = "close"
  /\ input_state = ESC_ASCII
  /\ done
  /\ returned = <<NullVerdict>>

(* C5 as stated: for every chunking of a stream that begins with a BOM,   *)
(* close() returns the label of a BOM the stream begins with, with         *)
(* confidence 1.0.                                                         *)
C5_BOMDominanceAnyChunking ==
  (last_op \in CloseOps /\ MatchingBOMs(bom_lead) # {}) =>
    \E b \in MatchingBOMs(bom_lead) : returned = <<Verdict(b.name, 100, "")>>

(* C5 as amended: when the first non-empty chunk begins with a BOM, the    *)
(* verdict is, from that feed on and as returned by close(), the label of  *)
(* the longest BOM that chunk begins with, with confidence 1.0 and         *)
(* language "", whatever follows the BOM.                                  *)
C5_BOMDominanceFirstChunk ==
  first_boms # {} =>
    LET v == Verdict(LongestLabel(first_boms), 100, "")
    IN /\ result = v
       /\ last_op \in CloseOps => returned = <<v>>

(* close() after a first chunk made of the UTF-8 BOM and two more bytes. *)
C5_Witness ==
  /\ last_op = "close"
  /\ first_boms = {"UTF-8-SIG"}
  /\ nbytes = 5

(* C6: a BOM verdict (a BOM label with confidence 1.0) exists only when    *)
(* the first non-empty chunk began with a BOM: no later chunk causes one.  *)
C6_BOMOnlyAtStreamStart ==
  (result.confidence = 100 /\ result.encoding \in {b.name : b \in BOMTable}) =>
    first_boms # {}

(* C7: a first chunk beginning FF FE 00 00 gives (UTF-32LE, 1.0, ""), one  *)
(* beginning 00 00 FE FF gives (UTF-32BE, 1.0, ""), and one beginning      *)
(* FF FE not followed by 00 00 gives (UTF-16LE, 1.0, "").                  *)
C7_UTF32BeforeUTF16 ==
  /\ "UTF-32LE" \in first_boms => result = Verdict("UTF-32LE", 100, "")
  /\ "UTF-32BE" \in first_boms => result = Verdict("UTF-32BE", 100, "")
  /\ ("UTF-16LE" \in first_boms /\ "UTF-32LE" \notin first_boms) =>
       result = Verdict("UTF-16LE", 100, "")

(* The first chunk was the UTF-32LE BOM followed by one more byte. *)
C7_Witness ==
  /\ last_op = "feed"
  /\ first_boms = {"UTF-16LE", "UTF-32LE"}
  /\ nbytes = 5

(* C8: after a non-empty stream of bytes <= 0x7F without ESC, however it   *)
(* was chunked, close() returns ("ascii", 1.0, "").                        *)
C8_PureAscii ==
  (last_op \in CloseOps /\ nbytes > 0 /\ plain_ascii) =>
    returned = <<Verdict("ascii", 100, "")>>

(* close() after five ASCII bytes fed in three chunks, the stream          *)
(* beginning with two NUL bytes and ending with a NUL byte.                *)
C8_Witness ==
  /\ last_op = "close"
  /\ plain_ascii
  /\ bom_lead = <<0, 0>>
  /\ last_char = 0
  /\ nchunks = 3
  /\ nbytes = 5

(* C9: no call other than reset moves the input class backward in the      *)
(* order PURE_ASCII, ESC_ASCII, HIGH_BYTE.                                 *)
C9_MonotonicInputClass ==
  [][last_op' # "reset" =>
       InputRank(input_state) <= InputRank(input_state')]_vars

(* The input class went PURE_ASCII, ESC_ASCII, HIGH_BYTE over several      *)
(* feeds, and close() was called.                                          *)
C9_Witness ==
  /\ input_state = HIGH_BYTE
  /\ esc_charset_prober # NoProber
  /\ last_op = "close"

(* The probers close() looks at. *)
ProbersAtClose ==
  (IF utf1632_prober # NoProber THEN {utf1632_prober} ELSE {})
    \cup {charset_probers[i] : i \in 1..Len(charset_probers)}

(* C10: close() with input class HIGH_BYTE, has_win_bytes set and no       *)
(* prober above MINIMUM_THRESHOLD returns ("windows-1252", 0.9, "").       *)
C10_WeakFallback ==
  (/\ last_op \in CloseOps
   /\ input_state = HIGH_BYTE
   /\ has_win_bytes
   /\ \A p \in ProbersAtClose : GetConfidence(p) <= MINIMUM_THRESHOLD) =>
    returned = <<Verdict("windows-1252", 90, "")>>

(* The probers close() takes the maximum over, in list order. *)
ProberListAtClose ==
  IF utf1632_prober # NoProber THEN <<utf1632_prober>> \o charset_probers
                                ELSE charset_probers

(* C11: a close() on a detector that is not done and whose input class is  *)
(* HIGH_BYTE returns the verdict of the prober of greatest confidence when *)
(* that confidence exceeds MINIMUM_THRESHOLD, and (none, 0.0, none) when   *)
(* no prober exceeds it and no Windows-range byte was seen.                *)
C11_StrongAndUndecidable ==
  [][(last_op' \in CloseOps /\ ~done /\ input_state = HIGH_BYTE) =>
       IF \E p \in ProbersAtClose : GetConfidence(p) > MINIMUM_THRESHOLD
         THEN returned' = <<ProberVerdict(MaxProber(ProberListAtClose))>>
         ELSE ~has_win_bytes => returned' = <<NullVerdict>>]_vars

C13_BOMLessUTF16 ==
  /\ (last_op \in CloseOps /\ stream = UTF16BEText) =>
       \E v \in {Verdict("UTF-16BE", 99, l) : l \in {"", None}} : returned = <<v>>
  /\ (last_op \in CloseOps /\ stream = UTF16LEText) =>
       \E v \in {Verdict("UTF-16LE", 99, l) : l \in {"", None}} : returned = <<v>>

(* C14: after any sequence of feed and close calls, reset() leaves the     *)
(* coordinator as a freshly constructed detector is: result (none, 0.0,    *)
(* none), done false, no data seen, input class PURE_ASCII, has_win_bytes  *)
(* false, last_char unset and no probers.                                  *)
C14_ResetEquivalence ==
  [][last_op' = "reset" =>
       /\ result' = Verdict(None, 0, None)
       /\ done' = FALSE
       /\ got_data' = FALSE
       /\ input_state' = PURE_ASCII
       /\ has_win_bytes' = FALSE
       /\ last_char' = NoChar
       /\ esc_charset_prober' = NoProber
       /\ utf1632_prober' = NoProber
       /\ charset_probers' = <<>>]_vars

(* reset() was the last call. *)
C14_Witness == last_op = "reset" /\ ~got_data /\ ~done

(* C15: no call of feed or close raises, and close returns a verdict with  *)
(* the fields encoding, confidence and language.                           *)
C15_DetectorDoesNotFail ==
  /\ ~raised
  /\ last_op \in CloseOps =>
       /\ Len(returned) = 1
       /\ DOMAIN returned[1] = {"encoding", "confidence", "language"}

(* C16: in every state of a CharDistributionAnalysis reached by feed       *)
(* calls, for any table size and positive typical ratio, get_confidence()  *)
(* lies between SURE_NO = 0.01 and SURE_YES = 0.99, bounds included.       *)
C16_ConfidenceRange ==
  /\ FracLE(SURE_NO, get_confidence(analysis))
  /\ FracLE(get_confidence(analysis), SURE_YES)

(* C16, as the code has it: get_confidence() is positive and at most       *)
(* SURE_YES; it is below SURE_NO when the frequent characters are few      *)
(* against the others times the typical ratio.                             *)
C16_ConfidencePositiveAtMostSureYes ==
  /\ FracLT(Frac(0, 1), get_confidence(analysis))
  /\ FracLE(get_confidence(analysis), SURE_YES)

(* 4 frequent characters among 71 at the ratio 6.0: 4 / (67 * 6.0) < 0.01. *)
C16_Witness ==
  /\ analysis.freq_chars = 4 /\ analysis.total_chars = 71
  /\ analysis.typical_distribution_ratio = 600
  /\ FracLT(get_confidence(analysis), SURE_NO)

(* C17: after any feed and reset calls 0 <= freq_chars <= total_chars, and *)
(* get_confidence() is SURE_NO whenever freq_chars <= 3.                   *)
C17_CountersInvariant ==
  /\ 0 <= analysis.freq_chars
  /\ analysis.freq_chars <= analysis.total_chars
  /\ analysis.freq_chars <= 3 => FracEq(get_confidence(analysis), SURE_NO)

(* Three frequent characters among more: still SURE_NO. *)
C17_Witness ==
  /\ analysis.freq_chars = 3 /\ analysis.total_chars = 5
  /\ FracEq(get_confidence(analysis), SURE_NO)

(* The i-th 16-bit unit of the bytes s, in the byte order given. *)
Unit16(s, i, big) ==
  IF big THEN s[2 * i - 1] * 256 + s[2 * i] ELSE s[2 * i] * 256 + s[2 * i - 1]

IsHighSurrogate(v) == 55296 <= v /\ v <= 56319

IsLowSurrogate(v) == 56320 <= v /\ v <= 57343

(* Some complete pair of s is a low surrogate that no high surrogate       *)
(* immediately precedes.                                                   *)
HasOrphanLowSurrogate(s, big) ==
  \E i \in 1..(Len(s) \div 2) :
    /\ IsLowSurrogate(Unit16(s, i, big))
    /\ (i = 1 \/ ~IsHighSurrogate(Unit16(s, i - 1, big)))

(* C18: every pair completed at an odd position is checked: the UTF-16BE   *)
(* (LE) flag is true exactly when the bytes fed so far hold a low          *)
(* surrogate not immediately preceded by a high surrogate, at whichever    *)
(* pair boundary; other units and high-low pairs leave it unchanged.       *)
C18_SurrogateCorrectness ==
  /\ prober.invalid_utf16be = HasOrphanLowSurrogate(fed, TRUE)
  /\ prober.invalid_utf16le = HasOrphanLowSurrogate(fed, FALSE)

(* The words of b that hold an international byte: the maximal runs of     *)
(* letters and international bytes with at least one of the latter.        *)
InternationalWords(b) ==
  {SubSeq(b, i, j) : <<i, j>> \in
     {w \in (1..Len(b)) \X (1..Len(b)) :
        /\ w[1] <= w[2]
        /\ \A k \in w[1]..w[2] : b[k] \in (Alphabet \cup International)
        /\ \E k \in w[1]..w[2] : b[k] \in International
        /\ (w[1] = 1 \/ b[w[1] - 1] \notin (Alphabet \cup International))
        /\ (w[2] = Len(b) \/ b[w[2] + 1] \notin (Alphabet \cup International))}}

(* w occurs in out as a run of consecutive bytes. *)
Occurs(w, out) ==
  \E k \in 0..(Len(out) - Len(w)) : SubSeq(out, k + 1, k + Len(w)) = w

(* C19: for every buffer, each word with at least one byte >= 0x80 still   *)
(* appears in what filter_international_words returns.                     *)
C19_InternationalWordsPreserved ==
  filtered # <<>> => \A w \in InternationalWords(buf) : Occurs(w, filtered[1])

(* A step of feed that consumed a chunk, left the input class HIGH_BYTE    *)
(* and did not latch a BOM verdict: the step the dispatch belongs to.      *)
HighByteDispatchStep ==
  /\ last_op' = "feed"
  /\ nbytes' > nbytes
  /\ input_state' = HIGH_BYTE
  /\ ~(/\ result' # result
       /\ result'.confidence = 100
       /\ result'.encoding \in {b.name : b \in BOMTable})

(* C20: when a feed ends with input class HIGH_BYTE the chunk is fed to    *)
(* the probers [positional, multi-byte, single-byte, Latin-1] in that      *)
(* order: the call completes with the four probers in place; the first of  *)
(* them in FOUND_IT gives the verdict and done becomes true; when none is  *)
(* in FOUND_IT, result and done are as before the call.                    *)
C20_HighByteDispatch ==
  [][HighByteDispatchStep =>
       /\ ~raised'
       /\ utf1632_prober' # NoProber
       /\ Len(charset_probers') = 3
       /\ LET ps == <<utf1632_prober'>> \o charset_probers'
              found == {i \in 1..Len(ps) : ps[i].state = FOUND_IT}
          IN IF found # {}
               THEN /\ done'
                    /\ result' = ProberVerdict(
                                   ps[CHOOSE i \in found : \A j \in found : i <= j])
               ELSE UNCHANGED <<result, done>>]_vars

(* The key of the two-byte character char in the table t: the byte string  *)
(* itself in a table keyed by byte strings; in a table built by            *)
(* dict(enumerate(TABLE)) the index of the character, the integer its two  *)
(* bytes make with the first byte low.                                     *)
HasRank(t, char) ==
  IF t.keys = "bytes" THEN char \in DOMAIN t.entries
  ELSE char[1] + 256 * char[2] + 1 \in DOMAIN t.entries

RankOf(t, char) ==
  IF t.keys = "bytes" THEN t.entries[char]
  ELSE t.entries[char[1] + 256 * char[2] + 1]

(* C21: feed(char, 2) of a two-byte character whose key has a rank in the  *)
(* table adds one to total_chars, and one to freq_chars exactly when the   *)
(* rank is below table_size; a feed with char_len other than 2, or of a    *)
(* character without a rank, changes neither counter.                      *)
C21_FeedCounting ==
  [][analysis_call' # <<>> =>
       LET char == analysis_call'[1]
           char_len == analysis_call'[2]
           t == analysis.char_to_freq_order
       IN IF char_len = 2 /\ Len(char) = 2 /\ HasRank(t, char)
            THEN /\ analysis'.total_chars = analysis.total_chars + 1
                 /\ analysis'.freq_chars =
                      analysis.freq_chars
                        + (IF RankOf(t, char) < analysis.table_size THEN 1 ELSE 0)
            ELSE /\ analysis'.total_chars = analysis.total_chars
                 /\ analysis'.freq_chars = analysis.freq_chars]_vars

(* Some complete aligned 4-byte window of s, read big-endian (or reversed),*)
(* is above 0x10FFFF or within 0xD800-0xDFFF.                              *)
HasInvalidWindow(s, big) ==
  \E i \in 1..(Len(s) \div 4) :
    LET w == SubSeq(s, 4 * i - 3, 4 * i)
        q == IF big THEN w ELSE <<w[4], w[3], w[2], w[1]>>
        low == q[2] * 65536 + q[3] * 256 + q[4]
    IN q[1] # 0 \/ low > 1114111 \/ (55296 <= low /\ low <= 57343)

(* C22: over a feed none of the four invalid flags goes from true to       *)
(* false; reset() leaves all four false; invalid_utf32be (le) is true      *)
(* exactly when some complete aligned 4-byte window fed so far, read       *)
(* big-endian (reversed), is not a valid UTF-32 value.                     *)
C22_StickyInvalidity ==
  [][/\ prober_call'.op = "feed" =>
          /\ prober.invalid_utf16be => prober'.invalid_utf16be
          /\ prober.invalid_utf16le => prober'.invalid_utf16le
          /\ prober.invalid_utf32be => prober'.invalid_utf32be
          /\ prober.invalid_utf32le => prober'.invalid_utf32le
     /\ prober_call'.op = "reset" =>
          /\ ~prober'.invalid_utf16be /\ ~prober'.invalid_utf16le
          /\ ~prober'.invalid_utf32be /\ ~prober'.invalid_utf32le
     /\ prober'.invalid_utf32be = HasInvalidWindow(fed', TRUE)
     /\ prober'.invalid_utf32le = HasInvalidWindow(fed', FALSE)]_vars

(* The parts of C22 that do not depend on reset(): the flags are sticky    *)
(* over feed and the UTF-32 flags follow the aligned windows.              *)
StickyOverFeed ==
  [][/\ prober_call'.op = "feed" =>
          /\ prober.invalid_utf16be => prober'.invalid_utf16be
          /\ prober.invalid_utf16le => prober'.invalid_utf16le
          /\ prober.invalid_utf32be => prober'.invalid_utf32be
          /\ prober.invalid_utf32le => prober'.invalid_utf32le
     /\ prober'.invalid_utf32be = HasInvalidWindow(fed', TRUE)
     /\ prober'.invalid_utf32le = HasInvalidWindow(fed', FALSE)]_vars

====
